---- MODULE Spec2Model ----
(***************************************************************************)
(* Model of src/huel.py: process_json_data and the mapping functions       *)
(* insert_event, insert_store and insert_order over an SQLite database.    *)
(*                                                                         *)
(* The database is the committed content of the twelve tables.  Python's   *)
(* sqlite3 opens a transaction implicitly before the first INSERT and      *)
(* keeps it open until conn.commit(); conn.close() without a commit drops  *)
(* the open transaction.  Foreign keys are declared but not enforced       *)
(* (no PRAGMA foreign_keys), PRIMARY KEY and NOT NULL are enforced.        *)
(***************************************************************************)
EXTENDS Integers, Sequences, FiniteSets, TLC

\* ------------------------------------------------------------------ bounds
MaxRecords == 2
MaxRuns == 2

\* ------------------------------------------------------- JSON input shapes
\* A JSON object is a record that always carries all of its keys; a key
\* that is missing in the JSON text has the value Absent, a JSON null has
\* the value Null.
Absent == "<absent>"
Null == "<null>"
None == "<None>"

\* Python truthiness of the values used for keys tested with
\* `"k" in d and d["k"]` or `if d:` (an empty dict and "" are falsy).
Truthy(v) == v \notin {Absent, Null, "", "{}"}

TaxLine(id) == [id |-> id]
LineItem(id, taxes) == [id |-> id, taxLines |-> taxes]
\* An appliedDiscounts entry with an appliesTo object; target is the shape
\* of appliesTo.target and variants the list appliesTo.target.variants.
Discount(id, targetType, target, variants) ==
    [id |-> id, appliesTo |-> "object", targetType |-> targetType,
     target |-> target, variants |-> variants]

BaseOrder(oid) ==
    [orderId |-> oid, currency |-> "GBP", reference |-> "object",
     amounts |-> "object", customerDetails |-> Absent, billingDetails |-> Absent,
     shippingDetails |-> Absent, lineItems |-> <<>>, shippingLines |-> <<>>,
     charges |-> <<>>, discountCodes |-> <<>>, appliedDiscounts |-> <<>>]

\* Orders whose every field is well formed.
ValidOrders ==
    { BaseOrder("o1"),
      [BaseOrder("o1") EXCEPT !.billingDetails = "object", !.shippingDetails = "object"],
      [BaseOrder("o1") EXCEPT !.billingDetails = "no_address", !.reference = Null,
                              !.amounts = Absent],
      [BaseOrder("o1") EXCEPT !.lineItems = << LineItem("l1", <<TaxLine("t1")>>),
                                              LineItem("l2", <<>>) >>,
                              !.shippingLines = << LineItem("sh1", <<TaxLine("t2")>>) >>],
      [BaseOrder("o1") EXCEPT !.billingDetails = "object",
                              !.lineItems = << LineItem("l1", <<>>) >>],
      [BaseOrder("o1") EXCEPT !.customerDetails = "object"],
      [BaseOrder("o1") EXCEPT !.charges = <<"c1">>, !.discountCodes = <<"SAVE">>],
      [BaseOrder("o1") EXCEPT !.appliedDiscounts =
           << Discount("d1", "variant", "object", <<"v1", "v2">>) >>],
      [BaseOrder("o1") EXCEPT !.appliedDiscounts =
           << Discount("d1", "percentage", "object", <<"v1">>) >>],
      [BaseOrder("o2") EXCEPT !.billingDetails = "object",
                              !.lineItems = << LineItem("l3", <<TaxLine("t1")>>) >>] }

\* Orders with one optional field absent, null or of an unexpected shape.
OddOrders ==
    { [BaseOrder("o1") EXCEPT !.billingDetails = "null_address"],
      [BaseOrder("o1") EXCEPT !.currency = Absent],
      [BaseOrder("o1") EXCEPT !.reference = "string"],
      [BaseOrder("o1") EXCEPT !.discountCodes = <<Absent>>],
      [BaseOrder("o1") EXCEPT !.appliedDiscounts =
           << Discount("d1", "variant", Null, <<>>) >>],
      [BaseOrder("o1") EXCEPT !.appliedDiscounts =
           << Discount("d1", "variant", Absent, <<>>) >>] }

\* An order naming the same line item twice.
ClashOrders ==
    { [BaseOrder("o1") EXCEPT !.lineItems = << LineItem("l1", <<>>), LineItem("l1", <<>>) >>] }

Orders == ValidOrders \cup OddOrders \cup ClashOrders

Store(id, name) == [id |-> id, name |-> name]
Payload(store, order) == [shape |-> "object", store |-> store, order |-> order]
Event(name, payload) == [event_name |-> name, event_payload |-> payload]

\* payload.get('store', {}) and payload.get('order', {}) of a missing key
NoStore == [id |-> Absent, name |-> Absent]
NoOrder == [BaseOrder(Absent) EXCEPT !.currency = Absent, !.reference = Absent]

AddressOrder ==
    [BaseOrder("o1") EXCEPT !.billingDetails = "object", !.shippingDetails = "object"]

\* event_payload missing, and event_payload = {}
MissingPayload == [shape |-> Absent, store |-> NoStore, order |-> NoOrder]
EmptyPayload == [shape |-> "{}", store |-> NoStore, order |-> NoOrder]

Records ==
    \* records with a missing or empty event_name or event_payload
    { Event(Absent, Payload(Store("s1", "A"), AddressOrder)),
      Event("", Payload(Store("s1", "A"), AddressOrder)),
      Event("order_placed", MissingPayload),
      Event("order_placed", EmptyPayload) }
    \cup { Event("order_placed", Payload(Store("s1", "A"), o)) : o \in Orders \cup {NoOrder} }
    \cup { Event("order_placed", Payload(Store("s1", "B"), BaseOrder("o1"))),
           Event("order_placed", Payload(NoStore, AddressOrder)),
           Event("order_placed", Payload(Store("s2", Absent), BaseOrder("o2"))) }

RECURSIVE SeqsUpTo(_, _)
SeqsUpTo(S, n) ==
    IF n = 0 THEN { <<>> }
    ELSE LET shorter == SeqsUpTo(S, n - 1)
         IN  shorter \cup { Append(s, x) : s \in { t \in shorter : Len(t) = n - 1 }, x \in S }

\* The input file: whether open() and json.loads succeed on it, and the
\* list json.loads returns.
Inputs ==
    { [status |-> "ok", records |-> rs] : rs \in SeqsUpTo(Records, MaxRecords) }
    \cup { [status |-> st, records |-> <<>>] : st \in {"FileNotFoundError", "JSONDecodeError"} }

\* --------------------------------------------------------------- database
Tables == {"events", "stores", "orders", "line_items", "tax_lines",
           "shipping_lines", "addresses", "customer_details", "charges",
           "discount_codes", "applied_discounts", "applied_discount_targets"}

EmptyDb == [t \in Tables |-> {}]

\* INTEGER PRIMARY KEY AUTOINCREMENT: one more than the largest id the
\* table ever held; no statement of the program deletes from such a table.
NextId(d, t) == Cardinality(d[t]) + 1

\* A statement either yields the database it leaves behind or raises.
Ok(d) == [db |-> d, exc |-> None]
Raise(d, e) == [db |-> d, exc |-> e]

\* sqlite3.IntegrityError, by the constraint that failed
UniqueFailed == "IntegrityError: UNIQUE constraint failed"
NotNullFailed == "IntegrityError: NOT NULL constraint failed"

\* Variant: INSERT OR REPLACE INTO t, a row holding the key is overwritten.
Insert_OrReplace(d, t, key, row) ==
    Ok([d EXCEPT ![t] = { r \in @ : r[key] # row[key] } \cup {row}])

\* INSERT INTO t: fails when the primary key is already in the table.
Insert(d, t, key, row) ==
    IF \E r \in d[t] : r[key] = row[key]
    THEN Raise(d, UniqueFailed)
    ELSE Ok([d EXCEPT ![t] = @ \cup {row}])

\* INSERT OR REPLACE INTO t: the row holding the key is deleted first.
InsertOrReplace(d, t, key, row) ==
    Ok([d EXCEPT ![t] = { r \in @ : r[key] # row[key] } \cup {row}])

\* Runs the next statement on the database a statement left behind, unless
\* that statement raised: an exception leaves the function at once.
Then(r, F(_)) == IF r.exc # None THEN r ELSE F(r.db)

\* d.get(k) of a key holding an object, a string, null or nothing: the
\* shapes "object" and Absent/Null never reach .get() on a non-dict.
GetRaises(shape) == Truthy(shape) /\ shape # "object"

\* ------------------------------------------------------------ insert_event
\* Returns the database with the new row committed and cursor.lastrowid.
insert_event(d, event_name) ==
    LET id == NextId(d, "events")
    IN  [db |-> [d EXCEPT !["events"] = @ \cup {[id |-> id, event_name |-> event_name]}],
         exc |-> None, lastrowid |-> id]

\* ------------------------------------------------------------ insert_store
\* store["id"] and store["name"] raise KeyError on a missing key.
insert_store(d, store) ==
    IF store.id = Absent \/ store.name = Absent
    THEN Raise(d, "KeyError")
    ELSE InsertOrReplace(d, "stores", "id", [id |-> store.id, name |-> store.name])

\* ------------------------------------------------------------ insert_order
RECURSIVE InsertTaxLines(_, _, _, _)
InsertTaxLines(d, taxes, parent_type, parent_id) ==
    IF taxes = <<>> THEN Ok(d)
    ELSE Then(Insert(d, "tax_lines", "id",
                     [id |-> Head(taxes).id, parent_type |-> parent_type,
                      parent_id |-> parent_id]),
              LAMBDA d1 : InsertTaxLines(d1, Tail(taxes), parent_type, parent_id))

\* Variant: the tax lines of a line item are given the order as parent.
RECURSIVE InsertLineItems_OrderAsParent(_, _, _)
InsertLineItems_OrderAsParent(d, orderId, items) ==
    IF items = <<>> THEN Ok(d)
    ELSE LET item == Head(items)
         IN  Then(Insert(d, "line_items", "id", [id |-> item.id, order_id |-> orderId]),
             LAMBDA d1 : Then(InsertTaxLines(d1, item.taxLines, "line_item", orderId),
             LAMBDA d2 : InsertLineItems_OrderAsParent(d2, orderId, Tail(items))))

RECURSIVE InsertLineItems(_, _, _)
InsertLineItems(d, orderId, items) ==
    IF items = <<>> THEN Ok(d)
    ELSE LET item == Head(items)
         IN  Then(Insert(d, "line_items", "id", [id |-> item.id, order_id |-> orderId]),
             LAMBDA d1 : Then(InsertTaxLines(d1, item.taxLines, "line_item", item.id),
             LAMBDA d2 : InsertLineItems(d2, orderId, Tail(items))))

\* Variant: the tax lines of a shipping line are tagged as a line item's.
RECURSIVE InsertShippingLines_LineItemType(_, _, _)
InsertShippingLines_LineItemType(d, orderId, lines) ==
    IF lines = <<>> THEN Ok(d)
    ELSE LET shipping_line == Head(lines)
         IN  Then(Insert(d, "shipping_lines", "id",
                         [id |-> shipping_line.id, order_id |-> orderId]),
             LAMBDA d1 : Then(InsertTaxLines(d1, shipping_line.taxLines,
                                             "line_item", shipping_line.id),
             LAMBDA d2 : InsertShippingLines_LineItemType(d2, orderId, Tail(lines))))

RECURSIVE InsertShippingLines(_, _, _)
InsertShippingLines(d, orderId, lines) ==
    IF lines = <<>> THEN Ok(d)
    ELSE LET shipping_line == Head(lines)
         IN  Then(Insert(d, "shipping_lines", "id",
                         [id |-> shipping_line.id, order_id |-> orderId]),
             LAMBDA d1 : Then(InsertTaxLines(d1, shipping_line.taxLines,
                                             "shipping_line", shipping_line.id),
             LAMBDA d2 : InsertShippingLines(d2, orderId, Tail(lines))))

RECURSIVE InsertCharges(_, _, _)
InsertCharges(d, orderId, charges) ==
    IF charges = <<>> THEN Ok(d)
    ELSE Then(Insert(d, "charges", "id", [id |-> Head(charges), order_id |-> orderId]),
              LAMBDA d1 : InsertCharges(d1, orderId, Tail(charges)))

\* discount_codes.code is NOT NULL and discount_code.get("code") is None
\* for an entry without a code.
RECURSIVE InsertDiscountCodes(_, _, _)
InsertDiscountCodes(d, orderId, codes) ==
    IF codes = <<>> THEN Ok(d)
    ELSE IF Head(codes) \in {Absent, Null} THEN Raise(d, NotNullFailed)
    ELSE Then(Insert(d, "discount_codes", "id",
                     [id |-> NextId(d, "discount_codes"), order_id |-> orderId,
                      code |-> Head(codes)]),
              LAMBDA d1 : InsertDiscountCodes(d1, orderId, Tail(codes)))

RECURSIVE InsertTargets(_, _, _)
InsertTargets(d, discount, variants) ==
    IF variants = <<>> THEN Ok(d)
    ELSE Then(Insert(d, "applied_discount_targets", "id",
                     [id |-> NextId(d, "applied_discount_targets"),
                      discount_id |-> discount.id, target_type |-> discount.targetType,
                      variant_variant_id |-> Head(variants)]),
              LAMBDA d1 : InsertTargets(d1, discount, Tail(variants)))

\* The appliesTo block: `"variants" in applies_to["target"]` raises
\* TypeError when target is null.
InsertAppliesTo(d, discount) ==
    IF ~Truthy(discount.appliesTo) THEN Ok(d)
    ELSE IF discount.targetType # "variant" \/ discount.target = Absent THEN Ok(d)
    ELSE IF discount.target = Null THEN Raise(d, "TypeError")
    ELSE IF discount.target # "object" THEN Ok(d)
    ELSE InsertTargets(d, discount, discount.variants)

RECURSIVE InsertAppliedDiscounts(_, _, _)
InsertAppliedDiscounts(d, orderId, discounts) ==
    IF discounts = <<>> THEN Ok(d)
    ELSE LET discount == Head(discounts)
         IN  Then(Insert(d, "applied_discounts", "id",
                         [id |-> discount.id, order_id |-> orderId]),
             LAMBDA d1 : Then(InsertAppliesTo(d1, discount),
             LAMBDA d2 : InsertAppliedDiscounts(d2, orderId, Tail(discounts))))

\* order["reference"].get(...) and order["amounts"].get(...)
ExtractNested(d, order) ==
    IF GetRaises(order.reference) \/ GetRaises(order.amounts)
    THEN Raise(d, "AttributeError")
    ELSE Ok(d)

\* Variant: INSERT OR IGNORE, an order already in the table keeps its row.
InsertOrderRow_Ignore(d, order, event_id, store_id) ==
    IF store_id \in {Absent, Null} \/ order.currency \in {Absent, Null}
    THEN Raise(d, NotNullFailed)
    ELSE IF \E o \in d["orders"] : o.id = order.orderId THEN Ok(d)
    ELSE InsertOrReplace(d, "orders", "id",
             [id |-> order.orderId, store_id |-> store_id, event_id |-> event_id,
              currency |-> order.currency,
              reference_order_gid |-> IF Truthy(order.reference) THEN "gid" ELSE Null])

\* INSERT OR REPLACE INTO orders; store_id, event_id and currency are NOT NULL.
InsertOrderRow(d, order, event_id, store_id) ==
    IF store_id \in {Absent, Null} \/ order.currency \in {Absent, Null}
    THEN Raise(d, NotNullFailed)
    ELSE InsertOrReplace(d, "orders", "id",
             [id |-> order.orderId, store_id |-> store_id, event_id |-> event_id,
              currency |-> order.currency,
              reference_order_gid |-> IF Truthy(order.reference) THEN "gid" ELSE Null])

InsertCustomer(d, order) ==
    IF ~Truthy(order.customerDetails) THEN Ok(d)
    ELSE Insert(d, "customer_details", "order_id", [order_id |-> order.orderId])

\* details.get("address", {}) is None for "address": null, and None.get raises.
InsertAddress(d, order, type, details) ==
    IF ~Truthy(details) THEN Ok(d)
    ELSE IF details = "null_address" THEN Raise(d, "AttributeError")
    ELSE Insert(d, "addresses", "id",
             [id |-> NextId(d, "addresses"), type |-> type, order_id |-> order.orderId,
              line1 |-> IF details = "object" THEN "1 High St" ELSE Null])

\* The statements of insert_order up to its conn.commit(), in order.
insert_order(d, order, event_id, store_id) ==
    Then(ExtractNested(d, order),
    LAMBDA d1 : Then(InsertOrderRow(d1, order, event_id, store_id),
    LAMBDA d2 : Then(InsertCustomer(d2, order),
    LAMBDA d3 : Then(InsertAddress(d3, order, "billing", order.billingDetails),
    LAMBDA d4 : Then(InsertAddress(d4, order, "shipping", order.shippingDetails),
    LAMBDA d5 : Then(InsertLineItems(d5, order.orderId, order.lineItems),
    LAMBDA d6 : Then(InsertShippingLines(d6, order.orderId, order.shippingLines),
    LAMBDA d7 : Then(InsertCharges(d7, order.orderId, order.charges),
    LAMBDA d8 : Then(InsertDiscountCodes(d8, order.orderId, order.discountCodes),
    LAMBDA d9 : InsertAppliedDiscounts(d9, order.orderId, order.appliedDiscounts))))))))))

\* ------------------------------------------------------- process_json_data
VARIABLES
    input,      \* the input file (the same file on every run)
    db,         \* the committed content of the database file
    db0,        \* the content of the database file when this run connected
    txn,        \* the connection's view: db plus the rows of its open transaction
    conn,       \* "none", "open" or "closed": the connection of this run
    pc,         \* position in process_json_data
    idx,        \* index in json_data of the record the loop is at
    event_id,   \* local event_id
    store_id,   \* local store_id
    exc,        \* the exception raised in this run, None if none was
    out,        \* the messages printed so far, over all runs
    run         \* number of calls of process_json_data so far

vars == <<input, db, db0, txn, conn, pc, idx, event_id, store_id, exc, out, run>>

Init ==
    /\ input \in Inputs
    /\ db = EmptyDb
    /\ db0 = EmptyDb
    /\ txn = EmptyDb
    /\ conn = "none"
    /\ pc = "connect"
    /\ idx = 0
    /\ event_id = None
    /\ store_id = None
    /\ exc = None
    /\ out = <<>>
    /\ run = 1

json_data == input.records
Rec == json_data[idx]

\* Variant: `if event_name:`, the payload is not tested.
Skipped_NameOnly(rec) == ~Truthy(rec.event_name)

\* `if event_name and payload:` is false
Skipped(rec) == ~Truthy(rec.event_name) \/ ~Truthy(rec.event_payload.shape)
\* `if store:` and `if order:` on payload.get(..., {}): a non-empty object
HasStore(payload) == payload.store # NoStore
HasOrder(payload) == payload.order # NoOrder

\* conn = sqlite3.connect(db_file_path)
Connect ==
    /\ pc = "connect"
    /\ conn' = "open"
    /\ db0' = db
    /\ txn' = db
    /\ pc' = "create_tables"
    /\ UNCHANGED <<input, db, idx, event_id, store_id, exc, out, run>>

\* create_tables(conn), called before the try statement: the CREATE TABLE
\* IF NOT EXISTS statements change no row; when one of them fails (the file
\* is not a database, is locked or cannot be written) the exception leaves
\* process_json_data.
CreateTables ==
    /\ pc = "create_tables"
    /\ \E ok \in BOOLEAN :
         IF ok THEN /\ pc' = "read"
                    /\ exc' = exc
              ELSE /\ pc' = "raised"
                   /\ exc' = "DatabaseError"
    /\ UNCHANGED <<input, db, db0, txn, conn, idx, event_id, store_id, out, run>>

\* open(), file.read(), the bracket repair and json.loads
ReadJson ==
    /\ pc = "read"
    /\ IF input.status = "ok"
       THEN /\ pc' = "loop"
            /\ idx' = 1
            /\ exc' = exc
       ELSE /\ pc' = "except"
            /\ exc' = input.status
            /\ idx' = idx
    /\ UNCHANGED <<input, db, db0, txn, conn, event_id, store_id, out, run>>

\* a record whose event_name or payload is falsy: next iteration
SkipRecord ==
    /\ pc = "loop"
    /\ idx <= Len(json_data)
    /\ Skipped(Rec)
    /\ idx' = idx + 1
    /\ UNCHANGED <<input, db, db0, txn, conn, pc, event_id, store_id, exc, out, run>>

\* Variant: insert_event leaves its row in the open transaction.
ProcessEvent_NoCommit ==
    /\ pc = "loop"
    /\ idx <= Len(json_data)
    /\ ~Skipped(Rec)
    /\ LET r == insert_event(txn, Rec.event_name)
       IN  /\ txn' = r.db
           /\ event_id' = r.lastrowid
    /\ pc' = "store"
    /\ UNCHANGED <<input, db, db0, conn, idx, store_id, exc, out, run>>

\* event_id = insert_event(conn, event_name), which commits
ProcessEvent ==
    /\ pc = "loop"
    /\ idx <= Len(json_data)
    /\ ~Skipped(Rec)
    /\ LET r == insert_event(txn, Rec.event_name)
       IN  /\ db' = r.db
           /\ txn' = r.db
           /\ event_id' = r.lastrowid
    /\ pc' = "store"
    /\ UNCHANGED <<input, db0, conn, idx, store_id, exc, out, run>>

\* store = payload.get('store', {}); if store: insert_store(conn, store),
\* which commits; store_id = store.get('id').  Without a store the order
\* block, nested in `if store:`, is not reached.
ProcessStore ==
    /\ pc = "store"
    /\ LET store == Rec.event_payload.store
           r == insert_store(txn, store)
       IN  IF ~HasStore(Rec.event_payload)
           THEN /\ pc' = "loop"
                /\ idx' = idx + 1
                /\ UNCHANGED <<db, txn, store_id, exc>>
           ELSE IF r.exc # None
           THEN /\ pc' = "except"
                /\ exc' = r.exc
                /\ txn' = r.db
                /\ UNCHANGED <<db, idx, store_id>>
           ELSE /\ pc' = "order"
                /\ db' = r.db
                /\ txn' = r.db
                /\ store_id' = store.id
                /\ UNCHANGED <<idx, exc>>
    /\ UNCHANGED <<input, db0, conn, event_id, out, run>>

\* order = payload.get('order', {}); if order: insert_order(...), which
\* commits after its last statement.  A statement that raises leaves the
\* rows written so far in the open transaction.
ProcessOrder ==
    /\ pc = "order"
    /\ LET order == Rec.event_payload.order
           r == insert_order(txn, order, event_id, store_id)
       IN  IF ~HasOrder(Rec.event_payload)
           THEN /\ pc' = "loop"
                /\ idx' = idx + 1
                /\ UNCHANGED <<db, txn, exc>>
           ELSE IF r.exc # None
           THEN /\ pc' = "except"
                /\ exc' = r.exc
                /\ txn' = r.db
                /\ UNCHANGED <<db, idx>>
           ELSE /\ pc' = "loop"
                /\ idx' = idx + 1
                /\ db' = r.db
                /\ txn' = r.db
                /\ exc' = exc
    /\ UNCHANGED <<input, db0, conn, event_id, store_id, out, run>>

\* the loop is exhausted: print("Data successfully processed ...")
ReportSuccess ==
    /\ pc = "loop"
    /\ idx > Len(json_data)
    /\ out' = Append(out, "success")
    /\ pc' = "finally"
    /\ UNCHANGED <<input, db, db0, txn, conn, idx, event_id, store_id, exc, run>>

\* Variant: the handler sits inside the loop, which goes on with the next
\* record.
Except_InsideLoop ==
    /\ pc = "except"
    /\ out' = Append(out, "error")
    /\ IF idx >= 1 THEN pc' = "loop" /\ idx' = idx + 1
                   ELSE pc' = "finally" /\ idx' = idx
    /\ UNCHANGED <<input, db, db0, txn, conn, event_id, store_id, exc, run>>

\* except Exception as e: print(f"Error processing JSON data: {e}")
Except ==
    /\ pc = "except"
    /\ out' = Append(out, "error")
    /\ pc' = "finally"
    /\ UNCHANGED <<input, db, db0, txn, conn, idx, event_id, store_id, exc, run>>

\* finally: conn.close(), which drops an open transaction
Finally ==
    /\ pc = "finally"
    /\ conn' = "closed"
    /\ txn' = db
    /\ pc' = "returned"
    /\ UNCHANGED <<input, db, db0, idx, event_id, store_id, exc, out, run>>

\* the caller runs process_json_data again on the same files
Rerun ==
    /\ pc \in {"returned", "raised"}
    /\ run < MaxRuns
    /\ run' = run + 1
    /\ pc' = "connect"
    /\ conn' = "none"
    /\ txn' = db
    /\ idx' = 0
    /\ event_id' = None
    /\ store_id' = None
    /\ exc' = None
    /\ UNCHANGED <<input, db, db0, out>>

Next ==
    \/ Connect
    \/ CreateTables
    \/ ReadJson
    \/ SkipRecord
    \/ ProcessEvent
    \/ ProcessStore
    \/ ProcessOrder
    \/ ReportSuccess
    \/ Except
    \/ Finally
    \/ Rerun

Spec == Init /\ [][Next]_vars

TypeOK ==
    /\ pc \in {"connect", "create_tables", "read", "loop", "store", "order",
               "except", "finally", "returned", "raised"}
    /\ conn \in {"none", "open", "closed"}
    /\ run \in 1..MaxRuns

\* ------------------------------------------------------------- properties
\* The record the loop has just finished (the loop is back at its head).
Prev == json_data[idx - 1]
AfterRecord == pc = "loop" /\ idx > 1

\* event_name or event_payload missing or empty, read off the JSON record
Incomplete(rec) ==
    \/ rec.event_name \in {Absent, ""}
    \/ rec.event_payload.shape \in {Absent, "{}"}

\* C1: a record whose event_name or event_payload is missing or empty
\* writes no row to any table, and the loop goes on to the next record.
C1_SkipWritesNothing ==
    [][ (pc = "loop" /\ idx <= Len(json_data) /\ Incomplete(Rec))
          => (db' = db /\ txn' = txn /\ pc' = "loop" /\ idx' = idx + 1) ]_vars

\* an incomplete first record was passed over and the second record wrote
C1_Witness ==
    /\ run = 1 /\ pc = "loop" /\ idx = 3
    /\ Incomplete(json_data[1])
    /\ json_data[1].event_payload.shape = "object"
    /\ db.stores = {}
    /\ Cardinality(db.events) = 1

\* an Order row keyed by the record's orderId carrying the record's event
OrderWritten(rec) ==
    \E o \in db.orders : o.id = rec.event_payload.order.orderId /\ o.event_id = event_id

\* C2 as stated: every complete record with a payload.order has its order
\* mapped, with or without a payload.store.
C2_OrderIndependentOfStore ==
    (AfterRecord /\ ~Incomplete(Prev) /\ Prev.event_payload.order.orderId # Absent)
        => OrderWritten(Prev)

\* C2 amended: the store is upserted only if payload.store is present, and
\* the order is mapped only if payload.store and payload.order are both
\* present; a record with an order and no store writes no Order row.
C2_OrderNestedInStore ==
    (AfterRecord /\ ~Incomplete(Prev)) =>
        LET p == Prev.event_payload
            withStore == p.store.id # Absent
            withOrder == p.order.orderId # Absent
        IN  /\ (withStore /\ withOrder) => OrderWritten(Prev)
            /\ withStore => [id |-> p.store.id, name |-> p.store.name] \in db.stores
            /\ ~withStore => \A o \in db.orders : o.event_id # event_id

\* a record with an order and no store has been processed
C2_Witness ==
    /\ AfterRecord /\ run = 1 /\ idx = 3
    /\ db.orders # {}
    /\ ~Incomplete(Prev)
    /\ Prev.event_payload.store.id = Absent
    /\ Prev.event_payload.order.orderId # Absent
    /\ Cardinality(db.events) = 2

\* Child tables whose primary key comes from the payload, and those with
\* an AUTOINCREMENT key.
KeyedChildTables == {"line_items", "tax_lines", "shipping_lines", "charges",
                     "applied_discounts", "customer_details"}
SurrogateChildTables == {"addresses", "discount_codes", "applied_discount_targets"}

\* the second of two runs that both got to the end of process_json_data
SecondRunDone == run = 2 /\ pc = "returned" /\ Len(out) = 2

OnePerId(t) == \A r1, r2 \in db[t] : r1.id = r2.id => r1 = r2
Ids(rows) == { r.id : r \in rows }

\* C3 as stated: after the second run on the same file the Store and Order
\* rows are as after the first run and every child table has doubled.
C3_ChildrenDouble ==
    SecondRunDone =>
        /\ OnePerId("stores") /\ Ids(db.stores) = Ids(db0.stores)
        /\ OnePerId("orders") /\ Ids(db.orders) = Ids(db0.orders)
        /\ \A t \in KeyedChildTables \cup SurrogateChildTables :
               Cardinality(db[t]) = 2 * Cardinality(db0[t])

\* C3 amended: after the second run there is still one Store row and one
\* Order row per external id; the child tables keyed by an external id hold
\* exactly the rows of the first run (the second run's INSERT collides and
\* the run is aborted); only the child tables with a surrogate key can grow,
\* to at most twice their size.
C3_KeyedChildrenNotDuplicated ==
    SecondRunDone =>
        /\ OnePerId("stores") /\ Ids(db.stores) = Ids(db0.stores)
        /\ OnePerId("orders") /\ Ids(db.orders) = Ids(db0.orders)
        /\ \A t \in KeyedChildTables : db[t] = db0[t]
        /\ \A t \in SurrogateChildTables :
               /\ db0[t] \subseteq db[t]
               /\ Cardinality(db[t]) <= 2 * Cardinality(db0[t])
        /\ (\E t \in KeyedChildTables : db0[t] # {}) => exc = UniqueFailed

\* the second run met the line items of the first run
C3_Witness ==
    /\ SecondRunDone
    /\ out = << "success", "error" >>
    /\ db0.line_items # {}
    /\ db0.addresses # {}

\* C4: no optional field that is absent, null or of an unexpected shape
\* makes the mapping of a record fail.
C4_OptionalFieldsNeverRaise ==
    exc \notin {"AttributeError", "TypeError", NotNullFailed}

\* C5: no exception leaves process_json_data; every exception of a run is
\* reported by the handler.
C5_NoExceptionEscapes ==
    /\ pc # "raised"
    /\ (pc = "returned" /\ exc # None) => out[Len(out)] = "error"

\* C6: process_json_data is never left with the connection still open.
C6_ConnectionAlwaysClosed ==
    pc \in {"returned", "raised"} => conn = "closed"

\* C7: in every committed database state every foreign key names a row.
C7_ReferentialIntegrity ==
    /\ \A o \in db.orders :
          /\ \E s \in db.stores : s.id = o.store_id
          /\ \E e \in db.events : e.id = o.event_id
    /\ \A t \in {"line_items", "shipping_lines", "addresses", "customer_details",
                 "charges", "discount_codes", "applied_discounts"} :
          \A r \in db[t] : \E o \in db.orders : o.id = r.order_id
    /\ \A x \in db.tax_lines :
          \/ x.parent_type = "line_item" /\ \E l \in db.line_items : l.id = x.parent_id
          \/ x.parent_type = "shipping_line"
               /\ \E l \in db.shipping_lines : l.id = x.parent_id
    /\ \A g \in db.applied_discount_targets :
          \E a \in db.applied_discounts : a.id = g.discount_id

\* a second run that was aborted over a database holding both kinds of tax
\* line and an address
C7_Witness ==
    /\ run = 2 /\ pc = "returned" /\ exc # None
    /\ \E x \in db.tax_lines : x.parent_type = "line_item"
    /\ \E x \in db.tax_lines : x.parent_type = "shipping_line"
    /\ db.addresses # {}

\* C8: from the primary-key collision to the end of the run the committed
\* database does not change and the loop does not advance; the run ends in
\* the handler.
C8_CollisionAbortsBatch ==
    [][ (exc' = UniqueFailed /\ run' = run) =>
          /\ db' = db
          /\ idx' = idx
          /\ pc' \in {"except", "finally", "returned"}
          /\ pc' = "returned" => (out'[Len(out')] = "error" /\ txn' = db) ]_vars

\* a run aborted by a collision in its first record, with rows of an
\* earlier run in place and a record left unprocessed
C8_Witness ==
    /\ pc = "returned" /\ exc = UniqueFailed
    /\ idx = 1 /\ Len(json_data) = 2
    /\ ~Incomplete(json_data[2])
    /\ db.line_items # {}
    /\ out = << "success", "error" >>

\* C9: no order has two billing or two shipping Address rows.
C9_OneAddressPerSide ==
    \A a1, a2 \in db.addresses :
        (a1.order_id = a2.order_id /\ a1.type = a2.type) => a1 = a2

\* the rows a successful insert_order added to a table
Added(t) == db'[t] \ db[t]

\* C10: an insert_order that goes through adds one LineItem row per entry
\* of lineItems, and one TaxLine row per nested tax line, each naming the
\* line item or shipping line it was nested under.
C10_LineItemsAndTaxParents ==
    [][ (pc = "order" /\ pc' = "loop" /\ Rec.event_payload.order.orderId # Absent) =>
          LET order == Rec.event_payload.order
              Nested(lines, ptype) ==
                  UNION { { [id |-> lines[i].taxLines[j].id, parent_type |-> ptype,
                             parent_id |-> lines[i].id] : j \in DOMAIN lines[i].taxLines } :
                          i \in DOMAIN lines }
          IN  /\ Cardinality(Added("line_items")) = Len(order.lineItems)
              /\ \A r \in Added("line_items") : r.order_id = order.orderId
              /\ Added("tax_lines") = Nested(order.lineItems, "line_item")
                                       \cup Nested(order.shippingLines, "shipping_line") ]_vars

\* an order with two line items and tax lines under a line item and under
\* a shipping line has been mapped
C10_Witness ==
    /\ AfterRecord /\ run = 1 /\ idx = 2
    /\ Cardinality(db.line_items) = 2
    /\ \E x \in db.tax_lines : x.parent_type = "line_item"
    /\ \E x \in db.tax_lines : x.parent_type = "shipping_line"

\* the Event row of the record the loop is at
EventRow == [id |-> event_id, event_name |-> Rec.event_name]

\* C11 as stated: a record whose processing fails partway leaves none of
\* its rows in the database after the run.
C11_FailedRecordLeavesNoRow ==
    (pc = "returned" /\ exc # None /\ idx >= 1) =>
        /\ EventRow \notin db.events
        /\ \A o \in db.orders : o.event_id # event_id

\* C11 amended: a record is committed in three units of work, the Event
\* row by insert_event, the Store upsert by insert_store, the Order row and
\* its children by insert_order.  A failure in insert_order commits none of
\* the order's rows and leaves the record's Event and Store rows in the
\* database; closing the connection commits nothing; a record that goes
\* through has its Event, Store and Order rows committed.
C11_ThreeUnitsOfWork ==
    [][ /\ (pc = "loop" /\ pc' = "store") => (EventRow' \in db'.events /\ txn' = db')
        /\ (pc = "store" /\ pc' = "order") =>
              [id |-> Rec.event_payload.store.id,
               name |-> Rec.event_payload.store.name] \in db'.stores
        /\ (pc = "order" /\ pc' = "except") =>
              /\ db' = db
              /\ EventRow \in db.events
              /\ \E s \in db.stores : s.id = Rec.event_payload.store.id
              /\ \A o \in db.orders : o.event_id # event_id
        /\ (pc = "order" /\ pc' = "loop" /\ Rec.event_payload.order.orderId # Absent) =>
              /\ \E o \in db'.orders :
                    o.id = Rec.event_payload.order.orderId /\ o.event_id = event_id
              /\ EventRow \in db'.events
              /\ txn' = db'
        /\ (pc = "finally") => (db' = db /\ txn' = db) ]_vars

\* the first record failed in insert_order after writing its Order row and
\* a line item: its Event and Store rows are committed, its order is not
C11_Witness ==
    /\ run = 1 /\ pc = "returned" /\ idx = 1
    /\ exc = UniqueFailed
    /\ EventRow \in db.events
    /\ db.stores # {}
    /\ db.orders = {} /\ db.line_items = {}

====
